---- MODULE Spec2Model ----
(***************************************************************************)
(* Model of proxy/stratum.go: the admission loop (ListenTCP), the session  *)
(* handler (handleTCPClient / handleTCPMessage), the reply primitives      *)
(* (sendTCPResult / sendTCPError / pushNewJob), the session registry       *)
(* (registerSession / removeSession) and the job broadcaster               *)
(* (broadcastNewJobs) of one stratum endpoint.                             *)
(***************************************************************************)
EXTENDS Integers, Sequences, FiniteSets, TLC

(* ---- bounds of the model ---- *)
\* connections that arrive at the endpoint
NumConns == 2
\* lines with data the clients send, over all connections
MaxLines == 3
\* calls of broadcastNewJobs
MaxCycles == 1
\* last clock reading
MaxTime == 6
\* request ids 1..MaxId (0 is the id of a push message)
MaxId == 1
\* stratumConfig.MaxConn of the endpoint
MaxConn == 1
\* stratumConfig.Timeout of the endpoint, in clock units
Timeout == 1
\* capacity of the bcast channel (1024 in the source), scaled to NumConns
BcastCap == 1

(* ---- program constants ---- *)
MaxReqSize == 1024

Conn == 1 .. NumConns
Cycle == 1 .. MaxCycles
Ids == 1 .. MaxId
\* two consecutive connections come from the same address
IpOf(c) == (c + 1) \div 2

\* lengths of a request line without its terminator
LineLens == {0, 1, 2, MaxReqSize - 1, MaxReqSize}
LoginMethods == {"eth_submitLogin", "eth_login"}
KnownMethods == LoginMethods \cup {"eth_getWork", "eth_submitWork", "eth_submitHashrate"}
Methods == KnownMethods \cup {"eth_other"}

\* a decoded StratumReq: method, id, and whether params decode as []string
Reqs == [method : Methods, id : Ids, paramsOk : BOOLEAN]
NoMsg == [kind |-> "none", id |-> 0]

VARIABLES
  \* ListenTCP
  lpc,        \* position of the accept loop: "accept", "acquire", "spawn"
  lconn,      \* connection the loop is admitting (0: none)
  n,          \* the loop's counter n
  accept,     \* the accept channel (tokens)
  arrived,    \* connections accepted so far
  verdict,    \* what the policy answered for each connection
  conn,       \* transport of each connection: "new", "open", "closed"
  \* the goroutine of each admitted connection
  hpc,        \* position of the goroutine
  herr,       \* value handleTCPClient returned: "none", "nil", or an error
  cause,      \* the condition handleTCPClient is acting on
  lines,      \* lines with data read so far, over all connections
  msg,        \* arguments of the sendTCPResult / sendTCPError call of the current request
  sent,       \* envelopes encoded for the current request
  \* Policy gateway calls
  banned,     \* addresses passed to BanClient
  malformed,  \* ApplyMalformedPolicy calls per connection
  \* Session
  outLock,    \* holder of the session mutex
  wire,       \* chunks on the wire that do not yet form a complete message
  deadline,   \* deadline of the transport
  now,        \* the clock
  \* Registry
  sessions,   \* stratum.sessions
  rlock,      \* readers holding sessionsMu
  \* broadcastNewJobs
  bpc,        \* position of the broadcaster: "idle", "loop"
  cycle,      \* calls of broadcastNewJobs so far
  rem,        \* sessions of the range loop still to visit
  bcast,      \* the bcast channel of each cycle (tokens)
  bn,         \* the broadcaster's counter n
  push,       \* position of the push goroutine of cycle k for session c
  job,        \* block template and health the latest call of broadcastNewJobs found
  dl0         \* deadline of each session of the snapshot of cycle k, until its push is over

lvars == <<lpc, lconn, n, accept, arrived, verdict>>
hvars == <<hpc, herr, cause, lines, msg, sent>>
pvars == <<banned, malformed>>
svars == <<outLock, wire, deadline, now>>
bvars == <<bpc, cycle, job, rem, bcast, bn, push, dl0>>
vars == <<lvars, conn, hvars, pvars, svars, sessions, rlock, bvars>>

Free == <<"free">>
HandlerId == <<"h">>
PushId(k) == <<"p", k>>

Init ==
  /\ lpc = "accept" /\ lconn = 0 /\ n = 0 /\ accept = <<>> /\ arrived = 0
  /\ verdict = [c \in Conn |-> "none"]
  /\ conn = [c \in Conn |-> "new"]
  /\ hpc = [c \in Conn |-> "idle"]
  /\ herr = [c \in Conn |-> "none"]
  /\ cause = [c \in Conn |-> "none"]
  /\ lines = 0
  /\ msg = [c \in Conn |-> NoMsg]
  /\ sent = [c \in Conn |-> <<>>]
  /\ banned = {} /\ malformed = [c \in Conn |-> 0]
  /\ outLock = [c \in Conn |-> Free]
  /\ wire = [c \in Conn |-> <<>>]
  /\ deadline = [c \in Conn |-> 0]
  /\ now = 0
  /\ sessions = {} /\ rlock = 0
  /\ bpc = "idle" /\ cycle = 0 /\ rem = {} /\ bn = 0
  /\ job = [tmpl |-> "none", sick |-> FALSE]
  /\ bcast = [k \in Cycle |-> <<>>]
  /\ push = [k \in Cycle |-> [c \in Conn |-> "none"]]
  /\ dl0 = [k \in Cycle |-> [c \in Conn |-> 0]]

(* ---- time ---- *)
\* clock readings that operations under way are still going to make: the first deadline of
\* the connection being admitted and the renewal of every push not yet over
Reserved ==
  (IF lpc # "accept" THEN 1 ELSE 0)
    + (IF bpc = "loop" THEN Cardinality(rem) ELSE 0)
    + Cardinality({kc \in Cycle \X Conn : push[kc[1]][kc[2]] \in {"start", "writing"}})

\* the clock has room for k readings besides the reserved ones
HasTime(k) == now + Reserved + k <= MaxTime

\* a read returns data only while the deadline of the transport has not passed
CanRead(c) == now <= deadline[c]

\* time passes; the clock is observed only through the deadlines of open transports
Tick ==
  /\ HasTime(1)
  /\ \E c \in Conn : conn[c] = "open" /\ now <= deadline[c]
  /\ now' = now + 1
  /\ UNCHANGED <<lvars, conn, hvars, pvars, outLock, wire, deadline, sessions, rlock, bvars>>

\* time.Now(): every reading of the clock is later than the readings before it
TimeNow == now + 1

\* faulty variant: the deadline is the time of the call
setDeadline_NoTimeout(c) ==
  /\ now < MaxTime
  /\ now' = TimeNow
  /\ deadline' = [deadline EXCEPT ![c] = TimeNow]

\* conn.SetDeadline(time.Now().Add(timeout))
setDeadline(c) ==
  /\ now < MaxTime
  /\ now' = TimeNow
  /\ deadline' = [deadline EXCEPT ![c] = TimeNow + Timeout]

(* ---- Registry ---- *)
\* sessionsMu.Lock() is granted when no reader holds the lock
CanLock == rlock = 0

registerSession(c) == CanLock /\ sessions' = sessions \cup {c}

removeSession(c) == CanLock /\ sessions' = sessions \ {c}

(* ---- ListenTCP ---- *)
\* faulty variant: only the ban is consulted
Rejected_BannedOnly(v) == v = "banned"

\* s.policy.IsBanned(ip) || !s.policy.ApplyLimitPolicy(ip)
Rejected(v) == v = "banned" \/ v = "denied"

\* faulty variant: a send on the channel never waits
HasRoom_Always(ch, cap) == TRUE

\* a send on a buffered channel proceeds when the buffer has room
HasRoom(ch, cap) == Len(ch) < cap

\* AcceptTCP, SetKeepAlive, and the policy check of one connection
Accept ==
  /\ lpc = "accept" /\ arrived < NumConns
  /\ \E v \in {"banned", "denied", "pass"} :
       LET c == arrived + 1 IN
       /\ v = "pass" => HasTime(1)
       /\ arrived' = c
       /\ verdict' = [verdict EXCEPT ![c] = v]
       /\ IF Rejected(v)
            THEN /\ conn' = [conn EXCEPT ![c] = "closed"]
                 /\ UNCHANGED <<lpc, lconn, n>>
            ELSE /\ conn' = [conn EXCEPT ![c] = "open"]
                 /\ n' = n + 1
                 /\ lconn' = c
                 /\ lpc' = "acquire"
  /\ UNCHANGED <<accept, hvars, pvars, svars, sessions, rlock, bvars>>

\* accept <- n
Acquire ==
  /\ lpc = "acquire"
  /\ HasRoom(accept, MaxConn)
  /\ accept' = Append(accept, n)
  /\ lpc' = "spawn"
  /\ UNCHANGED <<lconn, n, arrived, verdict, conn, hvars, pvars, svars, sessions, rlock, bvars>>

\* go func(cs *Session): handleTCPClient sets cs.enc, connbuff and the first deadline
Spawn ==
  /\ lpc = "spawn"
  /\ setDeadline(lconn)
  /\ hpc' = [hpc EXCEPT ![lconn] = "read"]
  /\ lpc' = "accept" /\ lconn' = 0
  /\ UNCHANGED <<n, accept, arrived, verdict, conn, herr, cause, lines, msg, sent,
                 pvars, outLock, wire, sessions, rlock, bvars>>

(* ---- handleTCPClient ---- *)
\* handleTCPClient returns v: the goroutine removes and closes on an error
Return(c, v, why) ==
  /\ herr' = [herr EXCEPT ![c] = v]
  /\ cause' = [cause EXCEPT ![c] = why]
  /\ msg' = [msg EXCEPT ![c] = NoMsg]
  /\ hpc' = [hpc EXCEPT ![c] = IF v # "nil" THEN "cleanup" ELSE "release"]

\* ReadLine reports isPrefix when the buffer fills before the terminator
isPrefix(len) == len >= MaxReqSize

\* ReadLine returns a line the buffer cannot hold: flood
ReadFlood(c) ==
  /\ hpc[c] = "read" /\ lines < MaxLines
  /\ CanRead(c)
  /\ \E len \in LineLens :
       /\ isPrefix(len)
       /\ banned' = banned \cup {IpOf(c)}
       /\ lines' = lines + 1
       \* return err, and err is nil when isPrefix is set
       /\ Return(c, "nil", "flood")
  /\ UNCHANGED <<lvars, conn, sent, malformed, svars, sessions, rlock, bvars>>

\* ReadLine returns io.EOF
ReadEOF(c) ==
  /\ hpc[c] = "read"
  /\ CanRead(c)
  /\ hpc' = [hpc EXCEPT ![c] = "eof"]
  /\ UNCHANGED <<lvars, conn, herr, cause, lines, msg, sent, pvars, svars,
                 sessions, rlock, bvars>>

\* s.removeSession(cs); break; return nil
EOFRemove(c) ==
  /\ hpc[c] = "eof"
  /\ removeSession(c)
  /\ Return(c, "nil", "eof")
  /\ UNCHANGED <<lvars, conn, lines, sent, pvars, svars, rlock, bvars>>

\* ReadLine returns another error (reset, deadline exceeded)
ReadError(c) ==
  /\ hpc[c] = "read"
  /\ Return(c, "io", "io")
  /\ UNCHANGED <<lvars, conn, lines, sent, pvars, svars, sessions, rlock, bvars>>

(* ---- handleTCPMessage ---- *)
\* the RPC handler of a method returned (reply, errReply): the envelope to send
Reply(ok) == IF ok THEN "result" ELSE "error"

\* handleTCPMessage calls sendTCPResult(id, ...) or sendTCPError(id, ...)
Call(c, kind, id, why) ==
  /\ msg' = [msg EXCEPT ![c] = [kind |-> kind, id |-> id]]
  /\ cause' = [cause EXCEPT ![c] = why]
  /\ hpc' = [hpc EXCEPT ![c] = "send"]
  /\ UNCHANGED herr

\* faulty variant: eth_submitHashrate is delegated like a login
handleTCPMessage_HashrateLogin(c, r) ==
  \/ /\ r.method \in LoginMethods
     /\ IF ~r.paramsOk
          THEN Return(c, "params", "params") /\ UNCHANGED sessions
          ELSE \E ok \in BOOLEAN :
                 \* handleLoginRPC registers the session when it accepts the login
                 /\ IF ok THEN registerSession(c) ELSE UNCHANGED sessions
                 /\ Call(c, Reply(ok), r.id, IF ok THEN "result" ELSE "rpc")
  \/ /\ r.method = "eth_getWork"
     /\ \E ok \in BOOLEAN : Call(c, Reply(ok), r.id, IF ok THEN "result" ELSE "rpc")
     /\ UNCHANGED sessions
  \/ /\ r.method = "eth_submitWork"
     /\ IF ~r.paramsOk
          THEN Return(c, "params", "params")
          ELSE \E ok \in BOOLEAN : Call(c, Reply(ok), r.id, IF ok THEN "result" ELSE "rpc")
     /\ UNCHANGED sessions
  \/ /\ r.method = "eth_submitHashrate"
     /\ \E ok \in BOOLEAN :
          /\ IF ok THEN registerSession(c) ELSE UNCHANGED sessions
          /\ Call(c, Reply(ok), r.id, "hashrate")
  \/ /\ r.method \notin KnownMethods
     \* default: handleUnknownRPC
     /\ Call(c, "error", r.id, "unknown")
     /\ UNCHANGED sessions

\* switch req.Method, up to the call of sendTCPResult / sendTCPError
handleTCPMessage(c, r) ==
  \/ /\ r.method \in LoginMethods
     /\ IF ~r.paramsOk
          THEN Return(c, "params", "params") /\ UNCHANGED sessions
          ELSE \E ok \in BOOLEAN :
                 \* handleLoginRPC registers the session when it accepts the login
                 /\ IF ok THEN registerSession(c) ELSE UNCHANGED sessions
                 /\ Call(c, Reply(ok), r.id, IF ok THEN "result" ELSE "rpc")
  \/ /\ r.method = "eth_getWork"
     /\ \E ok \in BOOLEAN : Call(c, Reply(ok), r.id, IF ok THEN "result" ELSE "rpc")
     /\ UNCHANGED sessions
  \/ /\ r.method = "eth_submitWork"
     /\ IF ~r.paramsOk
          THEN Return(c, "params", "params")
          ELSE \E ok \in BOOLEAN : Call(c, Reply(ok), r.id, IF ok THEN "result" ELSE "rpc")
     /\ UNCHANGED sessions
  \/ /\ r.method = "eth_submitHashrate"
     /\ Call(c, "result", r.id, "hashrate")
     /\ UNCHANGED sessions
  \/ /\ r.method \notin KnownMethods
     \* default: handleUnknownRPC
     /\ Call(c, "error", r.id, "unknown")
     /\ UNCHANGED sessions

\* faulty variant: every line renews the deadline, an ignored one too
ReadLine_RenewsAlways(c) ==
  /\ hpc[c] = "read" /\ lines < MaxLines
  /\ CanRead(c)
  /\ lines' = lines + 1
  /\ \E len \in LineLens :
       /\ ~isPrefix(len)
       /\ IF len > 1
            THEN \E jsonOk \in BOOLEAN :
                   IF ~jsonOk
                     THEN /\ malformed' = [malformed EXCEPT ![c] = @ + 1]
                          /\ Return(c, "json", "json")
                          /\ UNCHANGED <<deadline, now, sessions>>
                     ELSE /\ HasTime(1)
                          /\ setDeadline(c)
                          /\ \E r \in Reqs : handleTCPMessage(c, r)
                          /\ UNCHANGED malformed
            ELSE /\ HasTime(1)
                 /\ setDeadline(c)
                 /\ UNCHANGED <<hpc, herr, cause, msg, malformed, sessions>>
  /\ UNCHANGED <<lvars, conn, sent, banned, outLock, wire, rlock, bvars>>

\* ReadLine returns a whole line: ignored, malformed, or decoded, renewed and dispatched
ReadLine(c) ==
  /\ hpc[c] = "read" /\ lines < MaxLines
  /\ CanRead(c)
  /\ lines' = lines + 1
  /\ \E len \in LineLens :
       /\ ~isPrefix(len)
       /\ IF len > 1
            THEN \E jsonOk \in BOOLEAN :
                   IF ~jsonOk
                     THEN /\ malformed' = [malformed EXCEPT ![c] = @ + 1]
                          /\ Return(c, "json", "json")
                          /\ UNCHANGED <<deadline, now, sessions>>
                     ELSE /\ HasTime(1)
                          /\ setDeadline(c)
                          /\ \E r \in Reqs : handleTCPMessage(c, r)
                          /\ UNCHANGED malformed
            ELSE UNCHANGED <<hpc, herr, cause, msg, malformed, deadline, now, sessions>>
  /\ UNCHANGED <<lvars, conn, sent, banned, outLock, wire, rlock, bvars>>

(* ---- Session output ---- *)
\* faulty variant: the output path takes no lock
CanLockSession_NoLock(c) == TRUE

\* cs.Lock() is granted when nobody holds the session mutex
CanLockSession(c) == outLock[c] = Free

\* a write can succeed on an open transport whose deadline has not passed
CanWrite(c) == conn[c] = "open" /\ now <= deadline[c]

\* faulty variant: the response carries the placeholder id of a push message
JSONRpcResp_FixedId(id, kind) == [id |-> 0, kind |-> kind]

\* JSONRpcResp{Id: id, Version: "2.0", ...}
JSONRpcResp(id, kind) == [id |-> id, kind |-> kind]

\* enc.Encode starts to write a message of writer w
WriteBegin(c, w) == wire' = [wire EXCEPT ![c] = Append(@, <<"B", w>>)]

\* enc.Encode writes the rest of the message of writer w; a complete message leaves the model
WriteEnd(c, w) ==
  wire' = [wire EXCEPT ![c] = IF @ = << <<"B", w>> >> THEN <<>> ELSE Append(@, <<"E", w>>)]

\* value sendTCPResult returns: the error of Encode
sendTCPResultRet(ok) == IF ok THEN "nil" ELSE "encode"

\* faulty variant: sendTCPError reports only the error of Encode
sendTCPErrorRet_WriteOnly(ok) == IF ok THEN "nil" ELSE "encode"

\* value sendTCPError returns: the error of Encode, else errors.New(reply.Message)
sendTCPErrorRet(ok) == IF ok THEN "message" ELSE "encode"

\* value of the sendTCPResult / sendTCPError call of the current request
SendRet(c, ok) == IF msg[c].kind = "result" THEN sendTCPResultRet(ok) ELSE sendTCPErrorRet(ok)

\* sendTCPResult / sendTCPError: cs.Lock(), build the message, Encode begins or fails
SendBegin(c) ==
  /\ hpc[c] = "send"
  /\ CanLockSession(c)
  /\ sent' = [sent EXCEPT ![c] = Append(@, JSONRpcResp(msg[c].id, msg[c].kind))]
  /\ \E ok \in BOOLEAN :
       /\ ok => CanWrite(c)
       /\ IF ok
            THEN /\ outLock' = [outLock EXCEPT ![c] = HandlerId]
                 /\ WriteBegin(c, HandlerId)
                 /\ hpc' = [hpc EXCEPT ![c] = "writing"]
                 /\ UNCHANGED <<herr, cause, msg>>
            ELSE /\ Return(c, SendRet(c, FALSE), cause[c])
                 /\ UNCHANGED <<outLock, wire>>
  /\ UNCHANGED <<lvars, conn, lines, pvars, deadline, now, sessions, rlock, bvars>>

\* Encode completes, cs.Unlock(), and handleTCPMessage returns to handleTCPClient
SendEnd(c) ==
  /\ hpc[c] = "writing"
  /\ WriteEnd(c, HandlerId)
  /\ outLock' = [outLock EXCEPT ![c] = Free]
  /\ IF SendRet(c, TRUE) = "nil"
       THEN /\ hpc' = [hpc EXCEPT ![c] = "read"]
            /\ msg' = [msg EXCEPT ![c] = NoMsg]
            /\ cause' = [cause EXCEPT ![c] = "none"]
            /\ sent' = [sent EXCEPT ![c] = <<>>]
            /\ UNCHANGED herr
       ELSE /\ Return(c, SendRet(c, TRUE), cause[c])
            /\ UNCHANGED sent
  /\ UNCHANGED <<lvars, conn, lines, pvars, deadline, now, sessions, rlock, bvars>>

(* ---- the goroutine of ListenTCP after handleTCPClient returned ---- *)
\* faulty variant: the goroutine closes without removing the session
Cleanup_NoRemove(c) ==
  /\ hpc[c] = "cleanup"
  /\ hpc' = [hpc EXCEPT ![c] = "release"]
  /\ UNCHANGED <<lvars, conn, herr, cause, lines, msg, sent, pvars, svars, sessions, rlock, bvars>>

\* if err != nil { s.removeSession(cs) ...
Cleanup(c) ==
  /\ hpc[c] = "cleanup"
  /\ removeSession(c)
  /\ hpc' = [hpc EXCEPT ![c] = "release"]
  /\ UNCHANGED <<lvars, conn, herr, cause, lines, msg, sent, pvars, svars, rlock, bvars>>

\* faulty variant: the goroutine releases its slot without closing the transport
Release_NoClose(c) ==
  /\ hpc[c] = "release"
  /\ accept' = Tail(accept)
  /\ hpc' = [hpc EXCEPT ![c] = "done"]
  /\ sent' = [sent EXCEPT ![c] = <<>>]
  /\ UNCHANGED <<lpc, lconn, n, arrived, verdict, conn, herr, cause, lines, msg, pvars, svars,
                 sessions, rlock, bvars>>

\* ... conn.Close() }; <-accept
Release(c) ==
  /\ hpc[c] = "release"
  /\ conn' = [conn EXCEPT ![c] = IF herr[c] # "nil" THEN "closed" ELSE @]
  /\ accept' = Tail(accept)
  /\ hpc' = [hpc EXCEPT ![c] = "done"]
  /\ sent' = [sent EXCEPT ![c] = <<>>]
  /\ UNCHANGED <<lpc, lconn, n, arrived, verdict, herr, cause, lines, msg, pvars, svars,
                 sessions, rlock, bvars>>

(* ---- broadcastNewJobs ---- *)
\* faulty variant: only a missing template skips the broadcast
Skipped_NilOnly(tmpl, sick) == tmpl = "nil"

\* t == nil || len(t.Header) == 0 || s.isSick()
Skipped(tmpl, sick) == tmpl = "nil" \/ tmpl = "empty" \/ sick

\* the call up to the range loop: preconditions, RLock, count
BroadcastStart ==
  /\ bpc = "idle" /\ cycle < MaxCycles
  /\ cycle' = cycle + 1
  /\ \E tmpl \in {"nil", "empty", "ok"}, sick \in BOOLEAN :
       /\ job' = [tmpl |-> tmpl, sick |-> sick]
       /\ IF Skipped(tmpl, sick)
            THEN UNCHANGED <<bpc, rem, bn, dl0, rlock>>
            ELSE /\ HasTime(Cardinality(sessions))
                 /\ rlock' = rlock + 1
                 /\ rem' = sessions
                 /\ bn' = 0
                 /\ dl0' = [dl0 EXCEPT ![cycle + 1] =
                             [c \in Conn |-> IF c \in sessions THEN deadline[c] ELSE 0]]
                 /\ bpc' = "loop"
  /\ UNCHANGED <<lvars, conn, hvars, pvars, svars, sessions, bcast, push>>

\* faulty variant: the loop dispatches without moving on to the next session
BroadcastPush_KeepsMember ==
  /\ bpc = "loop"
  /\ \E m \in rem :
       /\ HasRoom(bcast[cycle], BcastCap)
       /\ bn' = bn + 1
       /\ bcast' = [bcast EXCEPT ![cycle] = Append(@, bn + 1)]
       /\ push' = [push EXCEPT ![cycle][m] = "start"]
       /\ rem' = rem
  /\ UNCHANGED <<lvars, conn, hvars, pvars, svars, sessions, rlock, bpc, cycle, job, dl0>>

\* one iteration of the range loop: n++; bcast <- n; go func(cs)
BroadcastPush ==
  /\ bpc = "loop"
  /\ \E m \in rem :
       /\ HasRoom(bcast[cycle], BcastCap)
       /\ bn' = bn + 1
       /\ bcast' = [bcast EXCEPT ![cycle] = Append(@, bn + 1)]
       /\ push' = [push EXCEPT ![cycle][m] = "start"]
       /\ rem' = rem \ {m}
  /\ UNCHANGED <<lvars, conn, hvars, pvars, svars, sessions, rlock, bpc, cycle, job, dl0>>

\* the range loop is over: the deferred RUnlock
BroadcastReturn ==
  /\ bpc = "loop" /\ rem = {}
  /\ rlock' = rlock - 1
  /\ bpc' = "idle"
  /\ UNCHANGED <<lvars, conn, hvars, pvars, svars, sessions, cycle, job, rem, bcast, bn, push, dl0>>

(* ---- the push goroutine of cycle k for session c ---- *)
\* faulty variant: a push that fails keeps its token of the bcast channel
PushBegin_KeepsToken(k, c) ==
  /\ push[k][c] = "start"
  /\ CanLockSession(c)
  /\ \E ok \in BOOLEAN :
       /\ ok => CanWrite(c)
       /\ IF ok
            THEN /\ outLock' = [outLock EXCEPT ![c] = PushId(k)]
                 /\ WriteBegin(c, PushId(k))
                 /\ push' = [push EXCEPT ![k][c] = "writing"]
                 /\ UNCHANGED bcast
            ELSE /\ push' = [push EXCEPT ![k][c] = "failed"]
                 /\ UNCHANGED <<bcast, outLock, wire>>
  /\ UNCHANGED <<lvars, conn, hvars, pvars, deadline, now, sessions, rlock,
                 bpc, cycle, job, rem, bn, dl0>>

\* pushNewJob: cs.Lock(), build the message, Encode begins; or Encode fails and <-bcast
PushBegin(k, c) ==
  /\ push[k][c] = "start"
  /\ CanLockSession(c)
  /\ \E ok \in BOOLEAN :
       /\ ok => CanWrite(c)
       /\ IF ok
            THEN /\ outLock' = [outLock EXCEPT ![c] = PushId(k)]
                 /\ WriteBegin(c, PushId(k))
                 /\ push' = [push EXCEPT ![k][c] = "writing"]
                 /\ UNCHANGED bcast
            ELSE /\ push' = [push EXCEPT ![k][c] = "failed"]
                 /\ bcast' = [bcast EXCEPT ![k] = Tail(@)]
                 /\ UNCHANGED <<outLock, wire>>
  /\ UNCHANGED <<lvars, conn, hvars, pvars, deadline, now, sessions, rlock,
                 bpc, cycle, job, rem, bn, dl0>>

\* Encode completes, cs.Unlock(), <-bcast, and err == nil: s.setDeadline(cs.conn, cs.s_id)
PushEnd(k, c) ==
  /\ push[k][c] = "writing"
  /\ WriteEnd(c, PushId(k))
  /\ outLock' = [outLock EXCEPT ![c] = Free]
  /\ bcast' = [bcast EXCEPT ![k] = Tail(@)]
  /\ setDeadline(c)
  /\ push' = [push EXCEPT ![k][c] = "doneOk"]
  /\ dl0' = [dl0 EXCEPT ![k][c] = 0]
  /\ UNCHANGED <<lvars, conn, hvars, pvars, sessions, rlock, bpc, cycle, job, rem, bn>>

\* faulty variant: a failed push is only logged
PushFailed_LogOnly(k, c) ==
  /\ push[k][c] = "failed"
  /\ push' = [push EXCEPT ![k][c] = "doneFail"]
  /\ dl0' = [dl0 EXCEPT ![k][c] = 0]
  /\ UNCHANGED <<lvars, conn, hvars, pvars, svars, sessions, rlock, bpc, cycle, job, rem, bcast, bn>>

\* err != nil: s.removeSession(cs)
PushFailed(k, c) ==
  /\ push[k][c] = "failed"
  /\ removeSession(c)
  /\ push' = [push EXCEPT ![k][c] = "doneFail"]
  /\ dl0' = [dl0 EXCEPT ![k][c] = 0]
  /\ UNCHANGED <<lvars, conn, hvars, pvars, svars, rlock, bpc, cycle, job, rem, bcast, bn>>

(* ---- the system ---- *)
Next ==
  \/ Tick
  \/ Accept
  \/ Acquire
  \/ Spawn
  \/ \E c \in Conn : ReadFlood(c)
  \/ \E c \in Conn : ReadEOF(c)
  \/ \E c \in Conn : EOFRemove(c)
  \/ \E c \in Conn : ReadError(c)
  \/ \E c \in Conn : ReadLine(c)
  \/ \E c \in Conn : SendBegin(c)
  \/ \E c \in Conn : SendEnd(c)
  \/ \E c \in Conn : Cleanup(c)
  \/ \E c \in Conn : Release(c)
  \/ BroadcastStart
  \/ BroadcastPush
  \/ BroadcastReturn
  \/ \E k \in Cycle, c \in Conn : PushBegin(k, c)
  \/ \E k \in Cycle, c \in Conn : PushEnd(k, c)
  \/ \E k \in Cycle, c \in Conn : PushFailed(k, c)

Spec == Init /\ [][Next]_vars

\* a ReadLine that is pending when the deadline has passed returns a timeout error
ReadTimeout(c) == now > deadline[c] /\ ReadError(c)

\* every goroutine that can take its next step takes it; input (connections, lines, EOF,
\* resets, new jobs) and the passing of time are not forced
Fairness ==
  /\ WF_vars(Acquire) /\ WF_vars(Spawn)
  /\ WF_vars(BroadcastPush) /\ WF_vars(BroadcastReturn)
  /\ \A c \in Conn :
       /\ WF_vars(ReadTimeout(c)) /\ WF_vars(EOFRemove(c))
       /\ WF_vars(SendBegin(c)) /\ WF_vars(SendEnd(c))
       /\ WF_vars(Cleanup(c)) /\ WF_vars(Release(c))
       /\ \A k \in Cycle :
            WF_vars(PushBegin(k, c)) /\ WF_vars(PushEnd(k, c)) /\ WF_vars(PushFailed(k, c))

LiveSpec == Spec /\ Fairness

TypeOK ==
  /\ lpc \in {"accept", "acquire", "spawn"}
  /\ Len(accept) <= MaxConn
  /\ sessions \subseteq Conn
  /\ rlock \in {0, 1}
  /\ now \in 0 .. MaxTime
  /\ now + Reserved <= MaxTime

(* ---- claims ---- *)
\* handleTCPClient has returned and the goroutine of ListenTCP is past it
Returned(c) == hpc[c] \in {"cleanup", "release", "done"}

\* C1: a connection that sent a line longer than the buffer (flood) has its address
\* banned and, once its goroutine is over, its transport closed and its session out of
\* the Registry; it reads no further line.
C1_FloodBansAndCloses ==
  \A c \in Conn :
    cause[c] = "flood" =>
      /\ Returned(c)
      /\ IpOf(c) \in banned
      /\ hpc[c] = "done" => (conn[c] = "closed" /\ c \notin sessions)

\* C2: a line within the size bound that fails to decode, as a request or as the
\* parameters of a login or submit, closes the session, has ApplyMalformedPolicy called
\* exactly once, and gets no Response.
C2_MalformedOnceNoReply ==
  \A c \in Conn :
    cause[c] \in {"json", "params"} =>
      /\ Returned(c)
      /\ malformed[c] = 1
      /\ sent[c] = <<>>
      /\ hpc[c] = "done" => (conn[c] = "closed" /\ c \notin sessions)

\* C3 as stated: an unknown method gets an error Response and the session goes on:
\* unless the write fails, the handler awaits the next line on an open connection.
C3_UnknownNotFatal ==
  \A c \in Conn :
    (cause[c] = "unknown" /\ herr[c] # "encode") =>
      (hpc[c] \in {"send", "writing"} /\ conn[c] = "open")

\* the step of c that ends the sendTCPResult / sendTCPError call of its request
EndsSend(c) == hpc[c] \in {"send", "writing"} /\ hpc'[c] \notin {"send", "writing"}

\* C3 as amended: an unknown method gets exactly one error Response and is fatal to the
\* session: the call that wrote it returns an error, handleTCPClient returns it, the
\* session leaves the Registry and the connection is closed.
C3_UnknownFatal ==
  /\ [] \A c \in Conn :
          cause[c] = "unknown" =>
            /\ hpc[c] = "send" => (sent[c] = <<>> /\ msg[c].kind = "error")
            /\ hpc[c] \in {"writing", "cleanup", "release"} =>
                 (Len(sent[c]) = 1 /\ sent[c][1].kind = "error")
            /\ Returned(c) => herr[c] \in {"message", "encode"}
            /\ hpc[c] \in {"release", "done"} => c \notin sessions
            /\ hpc[c] = "done" => conn[c] = "closed"
  /\ [][\A c \in Conn :
          (cause[c] = "unknown" /\ EndsSend(c)) =>
            (hpc'[c] = "cleanup" /\ cause'[c] = "unknown" /\ herr'[c] # "nil")]_vars

C3_Witness ==
  \E c \in Conn :
    /\ cause[c] = "unknown" /\ herr[c] = "message"
    /\ hpc[c] = "done" /\ conn[c] = "closed" /\ c \notin sessions

\* C4: a login, get-work or submit-work request with well-formed parameters gets exactly
\* one Response, a result when the RPC handler succeeded and an error when it failed,
\* carrying the id of the request.
C4_OneResponseSameId ==
  /\ [] \A c \in Conn :
          cause[c] \in {"result", "rpc"} =>
            LET kind == IF cause[c] = "result" THEN "result" ELSE "error" IN
            /\ hpc[c] = "send" => (sent[c] = <<>> /\ msg[c].kind = kind /\ msg[c].id \in Ids)
            /\ hpc[c] = "writing" => sent[c] = << [id |-> msg[c].id, kind |-> kind] >>
            /\ Returned(c) /\ hpc[c] # "done" =>
                 (Len(sent[c]) = 1 /\ sent[c][1].kind = kind /\ sent[c][1].id \in Ids)
  /\ [][\A c \in Conn :
          (cause[c] \in {"result", "rpc"} /\ EndsSend(c)) =>
            /\ hpc[c] = "send" =>
                 sent'[c] = << [id |-> msg[c].id, kind |-> msg[c].kind] >>
            /\ hpc[c] = "writing" =>
                 (sent[c] = << [id |-> msg[c].id, kind |-> msg[c].kind] >>
                  /\ sent'[c] \in {sent[c], <<>>})]_vars

C4_Witness ==
  \E c \in Conn :
    /\ hpc[c] = "writing" /\ cause[c] = "rpc"
    /\ sent[c] = << [id |-> msg[c].id, kind |-> "error"] >>
    /\ c \in sessions

\* C5: an error of the login, get-work or submit-work RPC handler is answered with an
\* error envelope and is fatal to the session: handleTCPClient returns an error, no line
\* is dispatched after it, the session leaves the Registry and the transport is closed.
C5_RpcErrorFatal ==
  /\ [] \A c \in Conn :
          cause[c] = "rpc" =>
            /\ hpc[c] \in {"send", "writing", "cleanup", "release", "done"}
            /\ hpc[c] \in {"writing", "cleanup", "release"} =>
                 (Len(sent[c]) = 1 /\ sent[c][1].kind = "error")
            /\ Returned(c) => herr[c] \in {"message", "encode"}
            /\ hpc[c] \in {"release", "done"} => c \notin sessions
            /\ hpc[c] = "done" => conn[c] = "closed"
  /\ [][\A c \in Conn :
          (cause[c] = "rpc" /\ EndsSend(c)) =>
            (hpc'[c] = "cleanup" /\ cause'[c] = "rpc" /\ herr'[c] # "nil")]_vars

C5_Witness ==
  \E c \in Conn :
    /\ cause[c] = "rpc" /\ herr[c] = "message"
    /\ hpc[c] = "done" /\ conn[c] = "closed" /\ c \notin sessions
    /\ lines >= 2

\* the goroutines that are in the middle of a write to session c
Writers(c) ==
  (IF hpc[c] = "writing" THEN {HandlerId} ELSE {})
    \cup {PushId(k) : k \in {j \in Cycle : push[j][c] = "writing"}}

\* C6: writes to one session exclude each other: at most one of sendTCPResult,
\* sendTCPError and pushNewJob is writing, it holds the session mutex, and the wire holds
\* complete messages followed by at most the part of the one being written.
C6_WritesExclusive ==
  \A c \in Conn :
    /\ Cardinality(Writers(c)) <= 1
    /\ Writers(c) = (IF outLock[c] = Free THEN {} ELSE {outLock[c]})
    /\ wire[c] = (IF outLock[c] = Free THEN <<>> ELSE << <<"B", outLock[c]>> >>)

C6_Witness ==
  \E c \in Conn, k \in Cycle :
    /\ push[k][c] = "writing" /\ hpc[c] = "send"
    /\ wire[c] = << <<"B", PushId(k)>> >>

\* the connections whose goroutine holds a slot of the accept channel
Admitted == {c \in Conn : hpc[c] \notin {"idle", "done"}}

\* C7: at most MaxConn handlers run at a time, and the occupied slots of the accept
\* channel are those of the goroutines that have not finished, whatever their handler
\* returned, plus the one of the connection being admitted.
C7_SlotsMatchHandlers ==
  /\ Cardinality(Admitted) <= MaxConn
  /\ Len(accept) <= MaxConn
  /\ Len(accept) = Cardinality(Admitted) + (IF lpc = "spawn" THEN 1 ELSE 0)

C7_Witness ==
  \E c \in Conn, d \in Conn :
    /\ hpc[c] = "done" /\ herr[c] # "nil"
    /\ hpc[d] = "read" /\ Len(accept) = MaxConn

\* C8: a connection the policy bans or denies is closed at once and nothing else happens:
\* no goroutine, no slot, no deadline, nothing written, Registry unchanged.
C8_RejectedOnlyClosed ==
  /\ [] \A c \in Conn :
          verdict[c] \in {"banned", "denied"} =>
            /\ conn[c] = "closed" /\ hpc[c] = "idle" /\ deadline[c] = 0
            /\ wire[c] = <<>> /\ sent[c] = <<>> /\ outLock[c] = Free
            /\ c \notin sessions /\ \A k \in Cycle : push[k][c] = "none"
  /\ [][\A c \in Conn :
          (verdict[c] = "none" /\ verdict'[c] \in {"banned", "denied"}) =>
            /\ conn'[c] = "closed"
            /\ UNCHANGED <<lpc, lconn, n, accept, hvars, svars, sessions, rlock, bvars>>]_vars

C8_Witness ==
  \E c \in Conn, d \in Conn :
    /\ c # d /\ IpOf(c) = IpOf(d)
    /\ hpc[c] = "read" /\ c \in sessions
    /\ verdict[d] = "denied" /\ conn[d] = "closed"

\* C9: the push goroutine of a failed pushNewJob removes its session from the Registry,
\* and a session that is out of the Registry comes back only by a login of its own handler.
C9_FailedPushRemoved ==
  [][\A c \in Conn :
       /\ (\E k \in Cycle : push[k][c] = "failed" /\ push'[k][c] = "doneFail") =>
            c \notin sessions'
       /\ (\E k \in Cycle : push[k][c] = "start" /\ push'[k][c] = "failed") =>
            UNCHANGED sessions
       /\ (c \notin sessions /\ c \in sessions') =>
            (hpc[c] = "read" /\ hpc'[c] = "send" /\ msg'[c].kind = "result")]_vars

C9_Witness ==
  \E c \in Conn, k \in Cycle :
    /\ push[k][c] = "doneFail" /\ c \notin sessions
    /\ bpc = "idle" /\ hpc[c] = "read"

\* C10: the push goroutine of a successful pushNewJob renews the deadline of its session
\* to the time of the renewal plus the timeout, later than the deadline the session had
\* at the snapshot; the goroutine of a failed push leaves the deadline alone.
C10_RenewedOnSuccess ==
  [][\A c \in Conn, k \in Cycle :
       /\ (push[k][c] = "writing" /\ push'[k][c] # "writing") =>
            /\ push'[k][c] = "doneOk"
            /\ deadline'[c] = now' + Timeout
            /\ deadline'[c] > dl0[k][c] /\ dl0[k][c] > 0
       /\ (push[k][c] \in {"start", "failed"} /\ push'[k][c] # push[k][c]) =>
            (push'[k][c] \in {"writing", "failed", "doneFail"} /\ deadline'[c] = deadline[c])]_vars

C10_Witness ==
  \E c \in Conn, k \in Cycle :
    /\ push[k][c] = "doneOk" /\ deadline[c] = now + Timeout
    /\ \E d \in Conn : d # c /\ push[k][d] = "doneFail"

\* C11: a connection whose read returned EOF has its session removed by the handler, which
\* returns no error, and once its goroutine is over its transport is closed.
C11_EOFClosesTransport ==
  \A c \in Conn :
    cause[c] = "eof" =>
      /\ Returned(c) /\ herr[c] = "nil"
      /\ c \notin sessions
      /\ hpc[c] = "done" => conn[c] = "closed"

\* the order in which a push goroutine moves through its positions
PushRank(p) ==
  CASE p = "none" -> 0
    [] p = "start" -> 1
    [] p \in {"writing", "failed"} -> 2
    [] OTHER -> 3

\* C12: in a cycle whose preconditions hold, the range loop dispatches one push to each
\* member of the Registry at the snapshot and to nobody else: while the loop runs the
\* members are those still to visit plus those already dispatched, a push is dispatched
\* only by the loop of the current cycle to a session still to visit, and a push goroutine
\* never starts over, so a failed push is not retried.
C12_OnePushPerMember ==
  /\ [] (bpc = "loop" =>
           \A c \in Conn :
             /\ c \in sessions <=> (c \in rem \/ push[cycle][c] # "none")
             /\ c \in rem => push[cycle][c] = "none")
  /\ [][\A k \in Cycle, c \in Conn :
          /\ push'[k][c] # push[k][c] =>
               /\ PushRank(push'[k][c]) > PushRank(push[k][c])
               /\ push[k][c] = "failed" => push'[k][c] = "doneFail"
          /\ (push[k][c] = "none" /\ push'[k][c] # "none") =>
               /\ bpc = "loop" /\ k = cycle /\ c \in rem /\ c \in sessions
               /\ push'[k][c] = "start" /\ rem' = rem \ {c}
               /\ \A d \in Conn \ {c} : push'[k][d] = push[k][d]
          /\ (bpc = "idle" /\ bpc' = "loop") =>
               (rem' = sessions /\ \A d \in Conn : push[cycle'][d] = "none")
          /\ (bpc = "loop" /\ bpc' = "idle") => rem = {}]_vars

C12_Witness ==
  \E c \in Conn, d \in Conn :
    /\ bpc = "idle" /\ cycle = 1
    /\ push[1][c] = "doneFail"
    /\ hpc[d] = "read" /\ conn[d] = "open" /\ d \notin sessions /\ push[1][d] = "none"
\* the session of c is over the way an error ends it
Evicted(c) ==
  /\ hpc[c] = "done" /\ herr[c] \notin {"none", "nil"}
  /\ conn[c] = "closed" /\ c \notin sessions

\* C13: a session whose deadline has passed while its handler reads or replies, with no
\* successful push still to renew it, is eventually evicted: the handler returns an error,
\* the session leaves the Registry, the transport is closed and the slot is released.
C13_ExpiredEvicted ==
  \A c \in Conn :
    (/\ hpc[c] \in {"read", "send", "writing"}
     /\ now > deadline[c]
     /\ \A k \in Cycle : push[k][c] # "writing")
      ~> Evicted(c)

C13_Witness ==
  \E c \in Conn :
    /\ Evicted(c) /\ cause[c] = "io" /\ now > deadline[c]
    /\ Cardinality(Admitted) + (IF lpc = "spawn" THEN 1 ELSE 0) = Len(accept)
    /\ \E k \in Cycle : push[k][c] = "doneFail"
\* C14: every eth_submitHashrate request gets one result Response with its id and changes
\* nothing else: the dispatch leaves the Registry and the policy state alone, and when the
\* Response is written the handler goes back to reading with the session as it was.
C14_HashrateNoEffect ==
  /\ [] \A c \in Conn :
          cause[c] = "hashrate" =>
            /\ hpc[c] = "send" => (sent[c] = <<>> /\ msg[c].kind = "result" /\ msg[c].id \in Ids)
            /\ hpc[c] = "writing" => sent[c] = << [id |-> msg[c].id, kind |-> "result"] >>
            /\ Returned(c) => herr[c] = "encode"
  /\ [][\A c \in Conn :
          /\ (cause[c] # "hashrate" /\ cause'[c] = "hashrate") =>
               /\ hpc[c] = "read" /\ hpc'[c] = "send"
               /\ UNCHANGED <<sessions, banned, malformed, conn, outLock, wire>>
          /\ (cause[c] = "hashrate" /\ hpc[c] = "writing" /\ hpc'[c] # "writing") =>
               /\ hpc'[c] = "read" /\ herr'[c] = herr[c]
               /\ UNCHANGED <<sessions, banned, malformed, conn, deadline>>]_vars

C14_Witness ==
  \E c \in Conn :
    /\ hpc[c] = "writing" /\ cause[c] = "hashrate" /\ c \in sessions
    /\ sent[c] = << [id |-> msg[c].id, kind |-> "result"] >>
    /\ lines >= 2

\* C15: while a push is in flight, or the broadcaster waits for room in its bcast channel,
\* the Registry lock is free for registerSession and removeSession.
C15_LockOnlyForSnapshot ==
  (\/ \E k \in Cycle, c \in Conn : push[k][c] \in {"start", "writing"}
   \/ bpc = "loop" /\ rem # {} /\ ~HasRoom(bcast[cycle], BcastCap))
    => CanLock
\* C16: the handler renews the deadline exactly when a line decodes as a request, in the
\* step that dispatches it; a line of at most one byte changes nothing but the count of
\* lines read, and a line that fails to decode leaves the deadline alone.
C16_RenewedOnDecodedOnly ==
  [][\A c \in Conn :
       LET dispatched == hpc[c] = "read" /\ (hpc'[c] = "send" \/ cause'[c] = "params")
           handlerStep == hpc[c] # "idle" /\ \A k \in Cycle : push'[k][c] = push[k][c] IN
       /\ dispatched => (lines' = lines + 1 /\ deadline'[c] = now' + Timeout /\ now' > now)
       /\ (handlerStep /\ deadline'[c] # deadline[c]) => dispatched
       /\ (hpc[c] = "read" /\ cause'[c] \in {"json", "flood"}) =>
            (lines' = lines + 1 /\ UNCHANGED <<deadline, now>> /\ sent'[c] = <<>>)
       /\ (lines' # lines /\ hpc' = hpc) =>
            UNCHANGED <<herr, cause, msg, sent, conn, pvars, svars, sessions>>]_vars

C16_Witness ==
  \E c \in Conn :
    /\ lines = 1 /\ now = 1 /\ arrived = 1
    /\ hpc[c] = "read" /\ conn[c] = "open" /\ deadline[c] = 1 + Timeout
\* C17: a call of broadcastNewJobs that finds no template, a template with an empty header
\* or a sick service does nothing: no push is started, no deadline is renewed, and the
\* Registry and its lock are left as they were.
C17_SkippedIsNoOp ==
  /\ [] ((job.tmpl \in {"nil", "empty"} \/ job.sick) =>
            (bpc = "idle" /\ \A c \in Conn : push[cycle][c] = "none"))
  /\ [][(cycle' # cycle /\ (job'.tmpl \in {"nil", "empty"} \/ job'.sick)) =>
           UNCHANGED <<lvars, conn, hvars, pvars, svars, sessions, rlock,
                       bpc, rem, bcast, bn, push, dl0>>]_vars

C17_Witness ==
  \E c \in Conn :
    /\ cycle = 1 /\ job.tmpl = "ok" /\ job.sick
    /\ c \in sessions /\ hpc[c] = "read" /\ now <= deadline[c]
    /\ push[1][c] = "none" /\ rlock = 0
\* no goroutine is in the middle of an operation that takes a lock or a channel
Quiet ==
  /\ bpc = "idle" /\ lpc # "spawn"
  /\ \A k \in Cycle, c \in Conn : push[k][c] \notin {"start", "writing", "failed"}
  /\ \A c \in Conn : hpc[c] \notin {"eof", "send", "writing", "cleanup", "release"}

\* C18: nothing waits for good on a lock or a channel: again and again every call of
\* broadcastNewJobs has returned, every push goroutine has finished, every handler that was
\* replying, removing its session or ending is back at reading or over, and the connection
\* that got a slot has its goroutine.
C18_NoDeadlock == []<>Quiet

C18_Witness ==
  \E c \in Conn, d \in Conn, k \in Cycle :
    /\ c # d /\ bpc = "loop" /\ rlock = 1 /\ d \in rem
    /\ push[k][c] = "failed" /\ hpc[d] = "cleanup"

\* C19: a session whose goroutine is over, however its handler returned, is not in the
\* Registry, and no range loop has it among the sessions still to visit.
C19_NoStaleSession ==
  \A c \in Conn :
    hpc[c] = "done" => (c \notin sessions /\ (bpc = "loop" => c \notin rem))

\* C20: the admitted connections whose transport is open are at most MaxConn, plus the one
\* the accept loop is admitting, and each of them other than that one holds a slot.
C20_OpenWithinSlots ==
  LET open == {c \in Conn : verdict[c] = "pass" /\ conn[c] = "open"} IN
  /\ Cardinality(open) <= MaxConn + (IF lpc = "acquire" THEN 1 ELSE 0)
  /\ \A c \in open : hpc[c] # "done"
====
